---------------------------- MODULE Spec2Model ----------------------------
(***************************************************************************)
(* A model of envi: the Application of src/src/app.rs driven by the event  *)
(* loop that src/src/main.rs starts.  The state is the Application's       *)
(* fields (windows, icon), the event loop's exit flag, the position of     *)
(* main and of the callback being run, and the future that resumed blocks  *)
(* on.                                                                     *)
(***************************************************************************)
EXTENDS Naturals, Sequences, FiniteSets

VARIABLES
    phase,          \* position of main: "new", "run", "exited", "panicked"
    windows,        \* Application.windows: WindowId -> WindowState
    icon,           \* Application.icon: NoIcon or an icon
    exiting,        \* the event loop's exit flag, set by event_loop.exit()
    callback,       \* the callback the event loop is inside: "none", "resumed"
    task,           \* the create_window future resumed blocks on
    block_on_calls, \* number of rt.block_on calls made so far
    lastCallback,   \* the callback that returned last, with its arguments
    exit_called     \* the callback that returned last called event_loop.exit()

vars == <<phase, windows, icon, exiting, callback, task, block_on_calls,
          lastCallback, exit_called>>

---------------------------------------------------------------------------
(* Bounds and input sets *)

\* Number of resumed callbacks the event loop delivers; also the number of
\* window ids the windowing library can hand out.
MaxResumed == 2

WindowIds == 1..MaxResumed

NoIcon == "None"

\* Icon file contents handed to with_icon: one that decodes, one that does not.
IconBytes == {"png", "garbage"}

NoSize == [width |-> 0, height |-> 0]

\* Values of Window::inner_size and of WindowEvent::Resized.
PhysicalSizes == {[width |-> 800, height |-> 600], [width |-> 1024, height |-> 768]}

\* Surface capability lists (SurfaceCapabilities.formats) an adapter can report.
CapabilityFormats ==
    { << >>,
      <<"Bgra8Unorm">>,
      <<"Bgra8Unorm", "Bgra8UnormSrgb">>,
      <<"Rgba8UnormSrgb", "Bgra8UnormSrgb">> }

Ev(type, state, key, size) ==
    [type |-> type, state |-> state, key |-> key, size |-> size]

NoEvent == Ev("none", "-", "-", NoSize)

\* The window events the event loop delivers.
WindowEvents ==
    {Ev("CloseRequested", "-", "-", NoSize)}
    \cup {Ev("Resized", "-", "-", s) : s \in PhysicalSizes}
    \cup {Ev("RedrawRequested", "-", "-", NoSize), Ev("Focused", "-", "-", NoSize)}
    \cup {Ev("KeyboardInput", st, k, NoSize) :
              st \in {"Pressed", "Released"}, k \in {"Escape", "KeyA"}}

NoWindow == [id |-> 0, icon |-> NoIcon]

NoTask == [stage |-> "none", window |-> NoWindow, size |-> NoSize]

NoCallback == [kind |-> "none", window_id |-> 0, event |-> NoEvent, result |-> "-"]

---------------------------------------------------------------------------
(* HashMap operations on Application.windows *)

IsEmpty(ws) == DOMAIN ws = {}

Remove(ws, id) == [k \in DOMAIN ws \ {id} |-> ws[k]]

Insert(ws, id, state) ==
    [k \in DOMAIN ws \cup {id} |-> IF k = id THEN state ELSE ws[k]]

---------------------------------------------------------------------------
(* WindowState::new *)

is_srgb(f) == f \in {"Bgra8UnormSrgb", "Rgba8UnormSrgb"}

\* formats.iter().copied().find(|f| f.is_srgb()): the first sRGB format, or "None".
RECURSIVE find_srgb(_)
find_srgb(formats) ==
    IF formats = << >> THEN "None"
    ELSE IF is_srgb(Head(formats)) THEN Head(formats)
    ELSE find_srgb(Tail(formats))

\* Option::None of get_default_config.
NoConfig == [format |-> "None", width |-> 0, height |-> 0]

\* surface.get_default_config: the first reported format at the given size,
\* or None when the adapter reports none.
get_default_config(formats, width, height) ==
    IF formats = << >> THEN NoConfig
    ELSE [format |-> Head(formats), width |-> width, height |-> height]

\* SurfaceConfiguration { format: surface_format, ..default_config }
surface_config(formats, size) ==
    [get_default_config(formats, size.width, size.height)
        EXCEPT !.format = find_srgb(formats)]

\* WindowState::new panics at one of its expect() calls on these capabilities.
new_panics(formats) ==
    \/ find_srgb(formats) = "None"
    \/ get_default_config(formats, 1, 1) = NoConfig

\* The WindowState that WindowState::new returns.  serial names the
\* instance/adapter/device/queue this call created.
WindowState_new(window, size, formats, serial) ==
    [window  |-> window,
     surface |-> [window |-> window.id, instance |-> serial],
     device  |-> serial,
     queue   |-> serial,
     config  |-> surface_config(formats, size),
     size    |-> size]

---------------------------------------------------------------------------
(* Application *)

\* image::load_from_memory(icon) ... Icon::from_rgba: the icon, or "Err".
load_icon(bytes) ==
    IF bytes = "png" THEN "icon" ELSE "Err"

\* for window_state in self.windows.values() { window.set_window_icon(icon) }
set_window_icons(ws, ic) ==
    [k \in DOMAIN ws |-> [ws[k] EXCEPT !.window.icon = ic]]

\* create_window without with_window_icon(self.icon.clone()).
create_os_window_no_icon(id, ic) == [id |-> id, icon |-> NoIcon]

\* Window::default_attributes()...with_window_icon(self.icon.clone()), and the
\* window the event loop creates from it under the id it hands out.
create_os_window(id, ic) == [id |-> id, icon |-> ic]

\* An insert keyed by something other than window_state.window.id().
insert_window_by_serial(ws, window_state) ==
    Insert(ws, window_state.device, window_state)

\* self.windows.insert(window_id, window_state), window_id = window_state.window.id()
insert_window(ws, window_state) == Insert(ws, window_state.window.id, window_state)

\* close_window without its event_loop.exit() call.
close_window_never_exits(ws, window_id) ==
    [windows |-> Remove(ws, window_id), exit |-> FALSE]

\* close_window without its self.windows.is_empty() test.
close_window_exits_always(ws, window_id) ==
    [windows |-> Remove(ws, window_id), exit |-> TRUE]

\* close_window: the map after the removal, and whether event_loop.exit() is called.
close_window(ws, window_id) ==
    [windows |-> Remove(ws, window_id), exit |-> IsEmpty(Remove(ws, window_id))]

\* The match without its KeyboardInput arm.
is_close_event_no_escape(event) == event.type = "CloseRequested"

\* The match without state: ElementState::Pressed.
is_close_event_any_escape(event) ==
    \/ event.type = "CloseRequested"
    \/ /\ event.type = "KeyboardInput"
       /\ event.key = "Escape"

\* The match of window_event: CloseRequested | KeyboardInput { Pressed, Escape }.
is_close_event(event) ==
    \/ event.type = "CloseRequested"
    \/ /\ event.type = "KeyboardInput"
       /\ event.state = "Pressed"
       /\ event.key = "Escape"

\* window_event with an arm that stores the size of a Resized event.
window_event_resizing(ws, window_id, event) ==
    IF is_close_event(event)
    THEN close_window(ws, window_id)
    ELSE IF event.type = "Resized" /\ window_id \in DOMAIN ws
    THEN [windows |-> [ws EXCEPT ![window_id].size = event.size,
                                 ![window_id].config.width = event.size.width,
                                 ![window_id].config.height = event.size.height],
          exit |-> FALSE]
    ELSE [windows |-> ws, exit |-> FALSE]

\* window_event: the map after the callback, and whether exit() was called.
window_event(ws, window_id, event) ==
    IF is_close_event(event)
    THEN close_window(ws, window_id)
    ELSE [windows |-> ws, exit |-> FALSE]

\* A spawn in place of block_on: the call returns with the future still running.
block_on_returns_at_once(t) == TRUE

\* rt.block_on(future) returns when the future has completed.
block_on_returns(t) == t.stage \in {"ok", "err"}

\* resumed with an exit() on the Err of create_window.
resumed_exits_on_error(result) == result = "err"

\* let _ = self.rt.block_on(..): resumed drops the Result, Ok or Err, and
\* so never calls event_loop.exit().
resumed_calls_exit(result) == FALSE

---------------------------------------------------------------------------
(* The state machine *)

Init ==
    /\ phase = "new"
    /\ windows = [k \in {} |-> NoWindow]
    /\ icon = NoIcon
    /\ exiting = FALSE
    /\ callback = "none"
    /\ task = NoTask
    /\ block_on_calls = 0
    /\ lastCallback = NoCallback
    /\ exit_called = FALSE

\* main: Application::new(..)?.with_icon(..), then event_loop.run_app(&mut app).
WithIcon(bytes) ==
    /\ phase = "new"
    /\ IF load_icon(bytes) = "Err"
       THEN /\ phase' = "panicked"
            /\ UNCHANGED <<icon, windows>>
       ELSE /\ icon' = load_icon(bytes)
            /\ windows' = set_window_icons(windows, load_icon(bytes))
            /\ phase' = "run"
    /\ UNCHANGED <<exiting, callback, task, block_on_calls, lastCallback,
                   exit_called>>

\* resumed is entered: block_on starts create_window, which runs up to the
\* first await of WindowState::new.  The event loop delivers Resumed at start
\* and may deliver it again (after a suspend, or redundantly), but not once
\* exit was requested.  The window it creates gets an id no live window has.
Resumed ==
    /\ phase = "run"
    /\ callback = "none"
    /\ task = NoTask
    /\ ~exiting
    /\ block_on_calls < MaxResumed
    /\ callback' = "resumed"
    /\ block_on_calls' = block_on_calls + 1
    /\ \/ \* event_loop.create_window(window_attributes)? returns the error
          /\ task' = [NoTask EXCEPT !.stage = "err"]
          /\ UNCHANGED phase
       \/ \* the window is created; instance.create_surface succeeds
          /\ \E id \in WindowIds \ DOMAIN windows, size \in PhysicalSizes :
                task' = [stage |-> "request_adapter",
                         window |-> create_os_window(id, icon),
                         size |-> size]
          /\ UNCHANGED phase
       \/ \* instance.create_surface(..).expect(..) panics
          /\ phase' = "panicked"
          /\ UNCHANGED task
    /\ UNCHANGED <<windows, icon, exiting, lastCallback, exit_called>>

\* instance.request_adapter(..).await.expect(..)
RequestAdapter ==
    /\ phase = "run"
    /\ task.stage = "request_adapter"
    /\ \/ /\ task' = [task EXCEPT !.stage = "request_device"]
          /\ UNCHANGED phase
       \/ /\ phase' = "panicked"
          /\ UNCHANGED task
    /\ UNCHANGED <<windows, icon, exiting, callback, block_on_calls, lastCallback,
                   exit_called>>

\* adapter.request_device(..).await.expect(..)
RequestDevice ==
    /\ phase = "run"
    /\ task.stage = "request_device"
    /\ \/ /\ task' = [task EXCEPT !.stage = "configure"]
          /\ UNCHANGED phase
       \/ /\ phase' = "panicked"
          /\ UNCHANGED task
    /\ UNCHANGED <<windows, icon, exiting, callback, block_on_calls, lastCallback,
                   exit_called>>

\* The rest of WindowState::new and of create_window: the surface format and
\* configuration, then self.windows.insert(window_id, window_state).
Configure(formats) ==
    /\ phase = "run"
    /\ task.stage = "configure"
    /\ IF new_panics(formats)
       THEN /\ phase' = "panicked"
            /\ UNCHANGED <<task, windows>>
       ELSE /\ windows' = insert_window(windows,
                    WindowState_new(task.window, task.size, formats, block_on_calls))
            /\ task' = [task EXCEPT !.stage = "ok"]
            /\ UNCHANGED phase
    /\ UNCHANGED <<icon, exiting, callback, block_on_calls, lastCallback,
                   exit_called>>

\* block_on returns and resumed discards the result: let _ = ...
ResumedReturn ==
    /\ phase = "run"
    /\ callback = "resumed"
    /\ block_on_returns(task)
    /\ callback' = "none"
    /\ task' = IF task.stage \in {"ok", "err"} THEN NoTask ELSE task
    /\ lastCallback' = [kind |-> "resumed", window_id |-> task.window.id,
                        event |-> NoEvent, result |-> task.stage]
    /\ exit_called' = resumed_calls_exit(task.stage)
    /\ exiting' = (exiting \/ resumed_calls_exit(task.stage))
    /\ UNCHANGED <<phase, windows, icon, block_on_calls>>

\* The windows the event loop may still hold events for: the live ones, and
\* the one the previous window event was for.
Deliverable ==
    DOMAIN windows
    \cup (IF lastCallback.kind = "window_event" THEN {lastCallback.window_id} ELSE {})

\* The event loop delivers window_event(event_loop, window_id, event).
WindowEvent(window_id, event) ==
    /\ phase = "run"
    /\ callback = "none"
    /\ window_id \in Deliverable
    /\ windows' = window_event(windows, window_id, event).windows
    /\ exit_called' = window_event(windows, window_id, event).exit
    /\ exiting' = (exiting \/ window_event(windows, window_id, event).exit)
    /\ lastCallback' = [kind |-> "window_event", window_id |-> window_id,
                        event |-> event, result |-> "-"]
    /\ UNCHANGED <<phase, icon, callback, task, block_on_calls>>

\* run_app returns once exit was requested and the callback has returned.
LoopExit ==
    /\ phase = "run"
    /\ callback = "none"
    /\ exiting
    /\ phase' = "exited"
    /\ UNCHANGED <<windows, icon, exiting, callback, task, block_on_calls,
                   lastCallback, exit_called>>

Next ==
    \/ \E bytes \in IconBytes : WithIcon(bytes)
    \/ Resumed
    \/ RequestAdapter
    \/ RequestDevice
    \/ \E formats \in CapabilityFormats : Configure(formats)
    \/ ResumedReturn
    \/ \E w \in WindowIds, event \in WindowEvents : WindowEvent(w, event)
    \/ LoopExit

Spec == Init /\ [][Next]_vars

\* The first resumed: the event loop emits Resumed when run_app starts.
FirstResumed == block_on_calls = 0 /\ Resumed

\* What the scheduling guarantees: main runs on to run_app, the event loop
\* delivers the first resumed, block_on drives its future to completion and
\* returns, and run_app returns once exit was requested.  The delivery of
\* window events depends on the user and is not guaranteed.
LiveSpec ==
    /\ Spec
    /\ WF_vars(\E bytes \in IconBytes : WithIcon(bytes))
    /\ WF_vars(FirstResumed)
    /\ WF_vars(RequestAdapter)
    /\ WF_vars(RequestDevice)
    /\ WF_vars(\E formats \in CapabilityFormats : Configure(formats))
    /\ WF_vars(ResumedReturn)
    /\ WF_vars(LoopExit)

---------------------------------------------------------------------------
(* Vocabulary of the properties *)

\* A callback returned in this step: resumed returned, or a window_event ran.
\* (A window_event that repeats the previous one and changes nothing is a
\* stuttering step.)
CallbackReturned ==
    \/ callback = "resumed" /\ callback' = "none"
    \/ lastCallback' # lastCallback

\* CloseRequested, or KeyboardInput with state Pressed and physical key Escape.
ClosingEvent(event) ==
    \/ event = Ev("CloseRequested", "-", "-", NoSize)
    \/ event = Ev("KeyboardInput", "Pressed", "Escape", NoSize)

\* The callback that returned in this step is window_event.
WindowEventReturned == CallbackReturned /\ lastCallback'.kind = "window_event"

Size(ws) == Cardinality(DOMAIN ws)

---------------------------------------------------------------------------
(* C1 *)

\* C1: close_window(window_id) removes window_id's entry and calls
\* event_loop.exit() if and only if the map is empty after the removal; any
\* step in which exit is called or the exit flag is raised ends with an empty
\* map, so exit is never requested while a window remains in the map.
C1_ExitIffEmptyAfterRemoval ==
    [][ /\ (WindowEventReturned /\ ClosingEvent(lastCallback'.event)) =>
              /\ windows' = Remove(windows, lastCallback'.window_id)
              /\ exit_called' <=> IsEmpty(windows')
        /\ (CallbackReturned /\ exit_called') => IsEmpty(windows')
        /\ (exiting' /\ ~exiting) => (IsEmpty(windows') /\ exit_called')
      ]_vars

\* After two resumed callbacks, a CloseRequested emptied the map and
\* requested exit.
C1_Witness ==
    /\ phase = "run"
    /\ exit_called
    /\ exiting
    /\ IsEmpty(windows)
    /\ lastCallback.kind = "window_event"
    /\ lastCallback.event.type = "CloseRequested"
    /\ block_on_calls = 2

---------------------------------------------------------------------------
(* C2 *)

\* C2: a window_event for window w carrying CloseRequested, or KeyboardInput
\* with state Pressed and physical key Escape, closes w: after the callback w
\* is not a key of the map and every other entry is as it was before.
C2_CloseEventClosesOnlyThatWindow ==
    [][ (WindowEventReturned /\ ClosingEvent(lastCallback'.event)) =>
            /\ lastCallback'.window_id \notin DOMAIN windows'
            /\ DOMAIN windows' = DOMAIN windows \ {lastCallback'.window_id}
            /\ \A k \in DOMAIN windows \ {lastCallback'.window_id} :
                   windows'[k] = windows[k]
      ]_vars

\* An Escape press closed one window while another stayed in the map.
C2_Witness ==
    /\ lastCallback.kind = "window_event"
    /\ lastCallback.event = Ev("KeyboardInput", "Pressed", "Escape", NoSize)
    /\ lastCallback.window_id \notin DOMAIN windows
    /\ ~IsEmpty(windows)
    /\ ~exiting

---------------------------------------------------------------------------
(* C3 *)

\* A closing event was delivered to window w by the last callback.
ClosingEventDeliveredTo(w) ==
    /\ lastCallback.kind = "window_event"
    /\ lastCallback.window_id = w
    /\ ClosingEvent(lastCallback.event)

\* Every window that is in the map at some time later receives a closing event.
EveryWindowReceivesClose ==
    \A w \in WindowIds : [](w \in DOMAIN windows => <>ClosingEventDeliveredTo(w))

---------------------------------------------------------------------------
(* C4 *)

\* C4: once with_icon has returned the application icon is present, every
\* window in the map carries the application's icon, and so does the window
\* that create_window is creating.
C4_WindowsCarryApplicationIcon ==
    /\ phase \in {"run", "exited"} => icon # NoIcon
    /\ \A w \in DOMAIN windows :
           /\ icon # NoIcon
           /\ windows[w].window.icon = icon
    /\ task.stage \in {"request_adapter", "request_device", "configure", "ok"} =>
           /\ icon # NoIcon
           /\ task.window.icon = icon

\* Two windows created after with_icon loaded the icon.
C4_Witness ==
    /\ icon = "icon"
    /\ Size(windows) = 2
    /\ \A w \in DOMAIN windows : windows[w].window.icon = "icon"

---------------------------------------------------------------------------
(* C5 *)

\* C5: from the step that inserts window w into the map to the step that
\* removes it, the stored surface, device, queue, surface configuration and
\* cached size of w keep the values WindowState::new gave them (the size it
\* read from the window, a configuration of that size with an sRGB format),
\* whatever resumed and window_event callbacks, resize events included, occur.
C5_WindowStateNeverMutated ==
    /\ [][ \A w \in DOMAIN windows \cap DOMAIN windows' :
               /\ windows'[w].surface = windows[w].surface
               /\ windows'[w].device = windows[w].device
               /\ windows'[w].queue = windows[w].queue
               /\ windows'[w].config = windows[w].config
               /\ windows'[w].size = windows[w].size
         ]_vars
    /\ [][ \A w \in DOMAIN windows' \ DOMAIN windows :
               /\ windows'[w].size = task.size
               /\ windows'[w].config.width = task.size.width
               /\ windows'[w].config.height = task.size.height
               /\ windows'[w].config.format \in {"Bgra8UnormSrgb", "Rgba8UnormSrgb"}
               /\ windows'[w].surface.window = w
         ]_vars

\* A Resized event carrying another size was delivered to a window that
\* still holds the size it was created with.
C5_Witness ==
    /\ lastCallback.kind = "window_event"
    /\ lastCallback.event.type = "Resized"
    /\ lastCallback.window_id \in DOMAIN windows
    /\ windows[lastCallback.window_id].size # lastCallback.event.size
    /\ windows[lastCallback.window_id].config.width # lastCallback.event.size.width

---------------------------------------------------------------------------
(* C6 *)

\* C6: the blocking create_window call made from resumed is executed once
\* over any sequence of callbacks, and before any window event is handled.
C6_BlocksOnceAtStartup ==
    /\ block_on_calls <= 1
    /\ lastCallback.kind = "window_event" => block_on_calls = 1

---------------------------------------------------------------------------
(* C7 *)

\* C7: once main has handed the Application to run_app, the windows map, the
\* icon and the exit flag change only inside a resumed or window_event
\* callback: no step between two callbacks changes them.
C7_StateChangesOnlyInsideCallbacks ==
    [][ (phase = "run" /\ (windows' # windows \/ icon' # icon \/ exiting' # exiting)) =>
            \/ callback = "resumed" /\ callback' = "resumed"
            \/ WindowEventReturned /\ callback = "none" /\ callback' = "none"
      ]_vars

\* resumed has inserted a window and block_on has not returned yet.
C7_Witness ==
    /\ callback = "resumed"
    /\ task.stage = "ok"
    /\ task.window.id \in DOMAIN windows
    /\ lastCallback.kind = "window_event"

---------------------------------------------------------------------------
(* C8 *)

\* C8: a window_event other than CloseRequested and an Escape press (a
\* resize, redraw, focus, Escape release, or any other key) leaves the
\* windows map and the icon as they were and requests no event-loop exit.
C8_OtherEventsChangeNothing ==
    [][ (WindowEventReturned /\ ~ClosingEvent(lastCallback'.event)) =>
            /\ windows' = windows
            /\ icon' = icon
            /\ exiting' = exiting
            /\ ~exit_called'
      ]_vars

\* An Escape release was delivered to a window, which is still in the map.
C8_Witness ==
    /\ lastCallback.kind = "window_event"
    /\ lastCallback.event = Ev("KeyboardInput", "Released", "Escape", NoSize)
    /\ lastCallback.window_id \in DOMAIN windows
    /\ ~exiting

---------------------------------------------------------------------------
(* C9 *)

\* The step in which create_window inserts its window.
CreateWindowInserts == task.stage # "ok" /\ task'.stage = "ok"

\* C9: every key k of the map maps to a WindowState whose window id is k and
\* whose surface is that window's, no two keys share a surface, device or
\* queue, a successful create_window adds exactly one entry (the ids of live
\* windows being distinct), nothing else in resumed changes the map, and a
\* window_event removes at most one entry.
C9_OneEntryPerWindow ==
    /\ [](\A k \in DOMAIN windows :
              /\ windows[k].window.id = k
              /\ windows[k].surface.window = k
              /\ \A j \in DOMAIN windows \ {k} :
                     /\ windows[j].surface # windows[k].surface
                     /\ windows[j].device # windows[k].device
                     /\ windows[j].queue # windows[k].queue)
    /\ [][ /\ CreateWindowInserts =>
                 /\ Size(windows') = Size(windows) + 1
                 /\ DOMAIN windows' = DOMAIN windows \cup {task.window.id}
           /\ (callback = "resumed" /\ ~CreateWindowInserts) => windows' = windows
           /\ WindowEventReturned =>
                 /\ DOMAIN windows' \subseteq DOMAIN windows
                 /\ Size(windows') + 1 >= Size(windows)
         ]_vars

\* The second successful resumed has returned and both windows are in the map.
C9_Witness ==
    /\ callback = "none"
    /\ lastCallback.kind = "resumed"
    /\ lastCallback.result = "ok"
    /\ Size(windows) = 2
    /\ lastCallback.window_id \in DOMAIN windows

---------------------------------------------------------------------------
(* C10 *)

\* C10: when create_window returns the error of the OS window creation,
\* resumed discards it and the windows map, the icon and the exit flag stay
\* as they were; after a failed first resumed the map is empty and the event
\* loop keeps running, exit being requested only by a closing window_event.
C10_FailedCreateChangesNothing ==
    /\ [][ (task.stage = "err" \/ task'.stage = "err") =>
               /\ windows' = windows
               /\ icon' = icon
               /\ exiting' = exiting
         ]_vars
    /\ []((/\ block_on_calls = 1
           /\ lastCallback.kind = "resumed"
           /\ lastCallback.result = "err") =>
              /\ IsEmpty(windows)
              /\ ~exiting
              /\ ~exit_called
              /\ phase = "run")
    /\ [][ exiting' # exiting =>
               (WindowEventReturned /\ ClosingEvent(lastCallback'.event)) ]_vars

\* The first resumed failed to create its window and has returned.
C10_Witness ==
    /\ block_on_calls = 1
    /\ callback = "none"
    /\ lastCallback.kind = "resumed"
    /\ lastCallback.result = "err"
    /\ IsEmpty(windows)
    /\ phase = "run"

=============================================================================
